---------------------------- MODULE Spec2Model ----------------------------
(***************************************************************************)
(* Model of the AS5600L magnetic rotary position sensor driver             *)
(* (src/ASL5600L.py, class ASL5600L).                                      *)
(*                                                                         *)
(* The driver object holds nothing but its I2C handle; every method is a  *)
(* fixed sequence of bus operations on that handle.  The model therefore   *)
(* keeps, besides the driver's position in its life cycle (pc), the two    *)
(* device registers the driver reads (status, angle) and a record of the   *)
(* most recent call: its name, arguments, return value and the bus         *)
(* operations it issued, in order (call), plus the name and return value   *)
(* of the call before it (prev).                                           *)
(* The records cover the calls made since the device registers last        *)
(* changed: a register change starts a new observation window.             *)
(*                                                                         *)
(* getStatus() and getConf() are not used by any other method and are not  *)
(* modelled.  The I2C(i2cId, freq=i2cFreq) construction on line 31 opens   *)
(* the bus and transfers nothing; i2cId and i2cFreq are left out.          *)
(***************************************************************************)
EXTENDS Integers, Sequences, FiniteSets, TLC

VARIABLES pc, call, prev, status, angle

vars == <<pc, call, prev, status, angle>>

---------------------------------------------------------------------------
(* Bounds of the model.                                                    *)

\* Out-of-range option values tried below 0: -NegSpan .. -1.
NegSpan == 2
\* Out-of-range option values tried from the limit up: limit .. limit+OverSpan-1.
OverSpan == 4
\* Largest high byte the angle register read returns.  The device keeps the
\* upper four bits zero (high byte <= 15); 16 is the first value beyond that.
MaxHi == 16

---------------------------------------------------------------------------
(* Class constants.                                                        *)

ADDRESS == 64
CONF_REG == 7
STATUS_REG == 11
ANGLE_REG == 14

Byte == 0..255

---------------------------------------------------------------------------
(* Python integer operators on non-negative integers.                      *)

\* x << n
Shl(x, n) == x * (2 ^ n)

RECURSIVE BitOr(_, _)
\* a | b
BitOr(a, b) ==
    IF a = 0 THEN b
    ELSE IF b = 0 THEN a
    ELSE (IF a % 2 = 1 \/ b % 2 = 1 THEN 1 ELSE 0) + 2 * BitOr(a \div 2, b \div 2)

RECURSIVE BitAnd(_, _)
\* a & b
BitAnd(a, b) ==
    IF a = 0 \/ b = 0 THEN 0
    ELSE (IF a % 2 = 1 /\ b % 2 = 1 THEN 1 ELSE 0) + 2 * BitAnd(a \div 2, b \div 2)

\* v in range(lo, hi), as a plausible slip would write it: hi included.
InRangeInclusive(v, lo, hi) == v \in lo..hi

\* v in range(lo, hi)
InRange(v, lo, hi) == v \in lo..(hi - 1)

RECURSIVE FromBytesLittle(_)
\* int.from_bytes(b, 'little'): the byte order swapped.
FromBytesLittle(b) ==
    IF Len(b) = 0 THEN 0 ELSE Head(b) + 256 * FromBytesLittle(Tail(b))

RECURSIVE FromBytesBig(_)
\* int.from_bytes(b, 'big')
FromBytesBig(b) ==
    IF Len(b) = 0 THEN 0
    ELSE Head(b) * (256 ^ (Len(b) - 1)) + FromBytesBig(Tail(b))

---------------------------------------------------------------------------
(* Python values returned by the methods.  A float is held as the exact    *)
(* fraction num/den in lowest terms, den a power of two.  The driver's     *)
(* only float arithmetic is float(r) / 4096 * 360 on a two-byte r: r/4096  *)
(* is a division by a power of two, and r*360 < 2^21 for a 12-bit r (and   *)
(* < 2^25 for any two-byte r, within a double's mantissa), so no rounding  *)
(* happens and the fraction is the float's exact value.                    *)

RECURSIVE Gcd(_, _)
Gcd(a, b) == IF b = 0 THEN a ELSE Gcd(b, a % b)

Float(n, d) ==
    LET g == Gcd(n, d) IN
    IF n = 0 THEN [tag |-> "float", num |-> 0, den |-> 1]
    ELSE [tag |-> "float", num |-> n \div g, den |-> d \div g]

\* float(i)
FloatOfInt(i) == Float(i, 1)
\* x / k and x * k for a float x and an int k
FDiv(x, k) == Float(x.num, x.den * k)
FMul(x, k) == Float(x.num * k, x.den)

None == [tag |-> "None", num |-> 0, den |-> 1]
Bool(b) == [tag |-> "bool", num |-> IF b THEN 1 ELSE 0, den |-> 1]
IntVal(i) == [tag |-> "int", num |-> i, den |-> 1]
\* bytes([...]) of a value outside range(0, 256) raises ValueError.
ValueError == [tag |-> "ValueError", num |-> 0, den |-> 1]

---------------------------------------------------------------------------
(* The bus.  One entry per I2C operation: a writeto (op "w") with the      *)
(* bytes sent, or a readfrom (op "r") with the bytes returned.             *)

W(data) == [op |-> "w", addr |-> ADDRESS, data |-> data]
R(data) == [op |-> "r", addr |-> ADDRESS, data |-> data]

\* What the device returns to readfrom(ADDRESS, n) after register reg
\* was selected: the status register is one byte, the angle register two
\* bytes, high byte first.
RegBytes(reg) ==
    IF reg = STATUS_REG THEN <<status>>
    ELSE IF reg = ANGLE_REG THEN <<angle.hi, angle.lo>>
    ELSE <<>>

\* writeto(ADDRESS, bytes([reg])) followed by readfrom(ADDRESS, n).
SelectAndRead(reg) == <<W(<<reg>>), R(RegBytes(reg))>>

NoArgs == <<>>
NoCall == [op |-> "none", args |-> NoArgs, ret |-> None, bus |-> <<>>]
\* What prev keeps of a call: its name and its return value.
Summary(c) == [op |-> c.op, ret |-> c.ret]

---------------------------------------------------------------------------
(* __init__: the configuration bytes.                                      *)

OptionNames == {"hyst", "powerMode", "watchdog", "fastFilterThreshold",
                "slowFilter", "pwmFreq", "outputStage"}

\* The exclusive upper limit of each option's range check.
Limit == [hyst |-> 4, powerMode |-> 4, watchdog |-> 2, fastFilterThreshold |-> 8,
          slowFilter |-> 4, pwmFreq |-> 4, outputStage |-> 2]

\* c1, with a plausible slip: the watchdog bit shifted to bit 4.
ConfC1WrongShift(a) ==
    LET c1a == IF InRange(a.watchdog, 0, 2)
               THEN BitOr(0, Shl(a.watchdog, 4)) ELSE 0
        c1b == IF InRange(a.fastFilterThreshold, 0, 8)
               THEN BitOr(c1a, Shl(a.fastFilterThreshold, 2)) ELSE c1a
    IN  IF InRange(a.slowFilter, 0, 4) THEN BitOr(c1b, a.slowFilter) ELSE c1b

\* c1 as lines 32-45 build it.
ConfC1(a) ==
    LET c1a == IF InRange(a.watchdog, 0, 2)
               THEN BitOr(0, Shl(a.watchdog, 5)) ELSE 0
        c1b == IF InRange(a.fastFilterThreshold, 0, 8)
               THEN BitOr(c1a, Shl(a.fastFilterThreshold, 2)) ELSE c1a
    IN  IF InRange(a.slowFilter, 0, 4) THEN BitOr(c1b, a.slowFilter) ELSE c1b

\* c2, with a plausible slip: hysteresis and power mode in each other's bits.
ConfC2Swapped(a) ==
    LET c2a == IF InRange(a.pwmFreq, 0, 4)
               THEN BitOr(0, Shl(a.pwmFreq, 6)) ELSE 0
        c2b == IF InRange(a.outputStage, 0, 2)
               THEN BitOr(c2a, Shl(a.outputStage, 4)) ELSE c2a
        c2c == IF InRange(a.powerMode, 0, 4)
               THEN BitOr(c2b, Shl(a.powerMode, 2)) ELSE c2b
    IN  IF InRange(a.hyst, 0, 4) THEN BitOr(c2c, a.hyst) ELSE c2c

\* c2 as lines 33 and 47-61 build it.
ConfC2(a) ==
    LET c2a == IF InRange(a.pwmFreq, 0, 4)
               THEN BitOr(0, Shl(a.pwmFreq, 6)) ELSE 0
        c2b == IF InRange(a.outputStage, 0, 2)
               THEN BitOr(c2a, Shl(a.outputStage, 4)) ELSE c2a
        c2c == IF InRange(a.powerMode, 0, 4)
               THEN BitOr(c2b, a.powerMode) ELSE c2b
    IN  IF InRange(a.hyst, 0, 4) THEN BitOr(c2c, Shl(a.hyst, 2)) ELSE c2c

\* __init__ with a plausible addition: the configuration is read back.
InitCallWithReadback(a) ==
    LET c1 == ConfC1(a)
        c2 == ConfC2(a)
    IN  [op |-> "__init__", args |-> a, ret |-> None,
         bus |-> <<W(<<CONF_REG, c1, c2>>)>> \o SelectAndRead(CONF_REG)]

\* The bus operations of __init__ and its outcome: bytes([CONF_REG, c1, c2])
\* raises ValueError, before anything is sent, unless c1 and c2 are bytes.
InitCall(a) ==
    LET c1 == ConfC1(a)
        c2 == ConfC2(a)
    IN  IF c1 \in Byte /\ c2 \in Byte
        THEN [op |-> "__init__", args |-> a, ret |-> None,
              bus |-> <<W(<<CONF_REG, c1, c2>>)>>]
        ELSE [op |-> "__init__", args |-> a, ret |-> ValueError, bus |-> <<>>]

\* The option records tried: every combination of in-range values, and each
\* of them with one option replaced by a value outside its range.
InRangeArgs == [hyst : 0..3, powerMode : 0..3, watchdog : 0..1,
                fastFilterThreshold : 0..7, slowFilter : 0..3,
                pwmFreq : 0..3, outputStage : 0..1]

OutOfRange(limit) == ((0 - NegSpan)..(0 - 1)) \cup (limit..(limit + OverSpan - 1))

Construct ==
    /\ pc = "new"
    /\ \E a \in InRangeArgs :
         \/ call' = InitCall(a)
         \/ \E o \in OptionNames : \E v \in OutOfRange(Limit[o]) :
              call' = InitCall([a EXCEPT ![o] = v])
    /\ pc' = "ready"
    /\ prev' = Summary(call)
    /\ UNCHANGED <<status, angle>>

---------------------------------------------------------------------------
(* The query methods.                                                      *)

\* The status decode, with a plausible slip: the too-weak bit ignored.
StatusOkIgnoringWeak(s) ==
    LET mh == BitAnd(s, 8) # 0
        md == BitAnd(s, 32) # 0
    IN  md /\ ~mh

\* Lines 97-104: mh, ml, md are bool(status & mask) for the masks
\* 0b00001000, 0b00010000, 0b00100000; the result is md and not mh and not ml.
StatusOk(s) ==
    LET mh == BitAnd(s, 8) # 0
        ml == BitAnd(s, 16) # 0
        md == BitAnd(s, 32) # 0
    IN  md /\ ~mh /\ ~ml

IsOkCall ==
    LET io == SelectAndRead(STATUS_REG)
        s  == FromBytesBig(io[2].data)
    IN  [op |-> "isOk", args |-> NoArgs, ret |-> Bool(StatusOk(s)), bus |-> io]

GetAngleCall ==
    LET io == SelectAndRead(ANGLE_REG)
    IN  [op |-> "getAngle", args |-> NoArgs,
         ret |-> IntVal(FromBytesBig(io[2].data)), bus |-> io]

\* The conversion with a plausible slip: full scale taken as 4095.
ToDegreesBy4095(raw) == FMul(FDiv(FloatOfInt(raw), 4095), 360)

\* Line 125: (float(raw) / 4096) * 360
ToDegrees(raw) == FMul(FDiv(FloatOfInt(raw), 4096), 360)

\* Line 137: the same expression, written out again in getAngleDegreesFast.
ToDegreesFast(raw) == FMul(FDiv(FloatOfInt(raw), 4096), 360)

\* getAngleDegrees with a plausible slip: the angle read before the gate.
GetAngleDegreesReadFirst ==
    LET a  == GetAngleCall
        ok == IsOkCall
    IN  IF ok.ret.num = 1
        THEN [op |-> "getAngleDegrees", args |-> NoArgs,
              ret |-> ToDegrees(a.ret.num), bus |-> a.bus \o ok.bus]
        ELSE [op |-> "getAngleDegrees", args |-> NoArgs,
              ret |-> None, bus |-> a.bus \o ok.bus]

\* Lines 124-128: isOk() first; getAngle() only when it returned True.
GetAngleDegreesCall ==
    LET ok == IsOkCall
        a  == GetAngleCall
    IN  IF ok.ret.num = 1
        THEN [op |-> "getAngleDegrees", args |-> NoArgs,
              ret |-> ToDegrees(a.ret.num), bus |-> ok.bus \o a.bus]
        ELSE [op |-> "getAngleDegrees", args |-> NoArgs,
              ret |-> None, bus |-> ok.bus]

\* getAngleDegreesFast with a plausible slip: it checks the status as well.
GetAngleDegreesFastGated ==
    LET ok == IsOkCall
        io == <<W(<<14>>), R(RegBytes(14))>>
    IN  [op |-> "getAngleDegreesFast", args |-> NoArgs,
         ret |-> ToDegreesFast(FromBytesBig(io[2].data)), bus |-> ok.bus \o io]

\* Lines 136-137: the selector is the literal b'\x0e'.
GetAngleDegreesFastCall ==
    LET io == <<W(<<14>>), R(RegBytes(14))>>
    IN  [op |-> "getAngleDegreesFast", args |-> NoArgs,
         ret |-> ToDegreesFast(FromBytesBig(io[2].data)), bus |-> io]

\* A method call on the constructed driver: the device is only read.
Invoke(c) ==
    /\ pc = "ready"
    /\ call' = c
    /\ prev' = Summary(call)
    /\ UNCHANGED <<pc, status, angle>>

IsOk == Invoke(IsOkCall)
GetAngle == Invoke(GetAngleCall)
GetAngleDegrees == Invoke(GetAngleDegreesCall)
GetAngleDegreesFast == Invoke(GetAngleDegreesFastCall)

---------------------------------------------------------------------------
(* The device.  Its registers change as the magnet moves; a change starts  *)
(* a new observation window.                                               *)

\* The raw angles 0, 2048 and 4095 as register bytes.
AngleSamples == {[hi |-> 0, lo |-> 0], [hi |-> 8, lo |-> 0], [hi |-> 15, lo |-> 255]}

\* Status bytes: no magnet, magnet detected, detected but too strong,
\* detected but too weak.
StatusSamples == {0, 32, 40, 48}

DeviceChange(s, a) ==
    /\ pc = "ready"
    /\ status' = s
    /\ angle' = a
    /\ call' = NoCall
    /\ prev' = Summary(NoCall)
    /\ UNCHANGED pc

\* The status register moves to the next byte value, wrapping around, so
\* that it takes every byte value.
StatusChange == DeviceChange((status + 1) % 256, angle)

\* The angle register moves to another sample angle.
AngleSampleChange == \E a \in AngleSamples \ {angle} : DeviceChange(status, a)

\* The status register moves to another sample status.
StatusSampleChange == \E s \in StatusSamples \ {status} : DeviceChange(s, angle)

\* The angle register's high or low byte goes up by one, wrapping around.
AngleChange ==
    \/ DeviceChange(status, [angle EXCEPT !.hi = (angle.hi + 1) % (MaxHi + 1)])
    \/ DeviceChange(status, [angle EXCEPT !.lo = (angle.lo + 1) % 256])

---------------------------------------------------------------------------
(* Spec: the driver from construction on, over every status byte, at the   *)
(* sample angles.                                                          *)

Init ==
    /\ pc = "new"
    /\ call = NoCall
    /\ prev = Summary(NoCall)
    /\ status = 0
    /\ angle = [hi |-> 0, lo |-> 0]

Next ==
    \/ Construct
    \/ IsOk
    \/ GetAngle
    \/ GetAngleDegrees
    \/ GetAngleDegreesFast
    \/ StatusChange
    \/ AngleSampleChange

Spec == Init /\ [][Next]_vars

(* SpecAngle: a constructed driver over every angle register content with  *)
(* a high byte up to MaxHi, at the sample statuses.                        *)

InitAngle ==
    /\ pc = "ready"
    /\ call = NoCall
    /\ prev = Summary(NoCall)
    /\ status \in StatusSamples
    /\ angle = [hi |-> 0, lo |-> 0]

NextAngle ==
    \/ IsOk
    \/ GetAngle
    \/ GetAngleDegrees
    \/ GetAngleDegreesFast
    \/ StatusSampleChange
    \/ AngleChange

SpecAngle == InitAngle /\ [][NextAngle]_vars

---------------------------------------------------------------------------
(* Vocabulary of the properties.                                           *)

\* Bit k of a byte, by arithmetic.
Bit(s, k) == (s \div (2 ^ k)) % 2

\* The status byte says: magnet detected, not too strong, not too weak.
MagnetValid(s) == Bit(s, 5) = 1 /\ Bit(s, 3) = 0 /\ Bit(s, 4) = 0

\* The content of the angle register as a number, high byte first.
Raw == angle.hi * 256 + angle.lo

\* An option's value, or 0 when it is outside its documented range.
Effective(a, o) == IF a[o] \in 0..(Limit[o] - 1) THEN a[o] ELSE 0

\* The documented packing of the two configuration bytes, by arithmetic
\* (the fields do not overlap).
DocC1(a) == Effective(a, "watchdog") * 32 + Effective(a, "fastFilterThreshold") * 4
            + Effective(a, "slowFilter")
DocC2(a) == Effective(a, "pwmFreq") * 64 + Effective(a, "outputStage") * 16
            + Effective(a, "hyst") * 4 + Effective(a, "powerMode")

\* Register-select writes that are followed by a read: the transactions.
Transactions(bus) ==
    Cardinality({i \in 1..(Len(bus) - 1) :
                    /\ bus[i].op = "w"
                    /\ Len(bus[i].data) = 1
                    /\ bus[i + 1].op = "r"})

\* Bus operations that select, or read after selecting, register reg.
RegisterOps(bus, reg) ==
    {i \in 1..Len(bus) :
        \/ bus[i].op = "w" /\ Len(bus[i].data) >= 1 /\ bus[i].data[1] = reg
        \/ /\ i > 1
           /\ bus[i].op = "r"
           /\ bus[i - 1].op = "w"
           /\ bus[i - 1].data = <<reg>>}

ExampleVector == [hyst |-> 2, powerMode |-> 1, watchdog |-> 1,
                  fastFilterThreshold |-> 5, slowFilter |-> 2,
                  pwmFreq |-> 3, outputStage |-> 1]

---------------------------------------------------------------------------
(* The properties.                                                         *)

\* C1: for every combination of in-range options the constructor writes
\* exactly C1 = (watchdog<<5) | (fastFilterThreshold<<2) | slowFilter and
\* C2 = (pwmFrequency<<6) | (outputStage<<4) | (hysteresis<<2) | powerMode.
C1_ConfigBytesFollowFormula ==
    (call.op = "__init__" /\ call.args \in InRangeArgs) =>
        LET a  == call.args
            c1 == BitOr(BitOr(Shl(a.watchdog, 5), Shl(a.fastFilterThreshold, 2)),
                        a.slowFilter)
            c2 == BitOr(BitOr(BitOr(Shl(a.pwmFreq, 6), Shl(a.outputStage, 4)),
                              Shl(a.hyst, 2)), a.powerMode)
        IN  /\ call.ret = None
            /\ call.bus = <<W(<<CONF_REG, c1, c2>>)>>
            /\ c1 = DocC1(a)
            /\ c2 = DocC2(a)

\* C1 witness: every option at its largest valid value, both bytes written.
C1_Witness ==
    /\ call.op = "__init__"
    /\ call.args = [hyst |-> 3, powerMode |-> 3, watchdog |-> 1,
                    fastFilterThreshold |-> 7, slowFilter |-> 3,
                    pwmFreq |-> 3, outputStage |-> 1]
    /\ call.bus = <<W(<<CONF_REG, 63, 223>>)>>

\* C2 as stated: the example vector hysteresis=2, powerMode=1, watchdog=1,
\* fastFilterThreshold=5, slowFilter=2, pwmFrequency=3, outputStage=1 writes
\* C1 = 0x29 and C2 = 0xDE.
C2_ExampleVectorAsStated ==
    (call.op = "__init__" /\ call.args = ExampleVector) =>
        call.bus = <<W(<<CONF_REG, 41, 222>>)>>

\* C2 amended: the example vector writes C1 = 0x36 and C2 = 0xD9, the
\* values the packing formula gives.
C2_ExampleVectorBytes ==
    (call.op = "__init__" /\ call.args = ExampleVector) =>
        call.bus = <<W(<<CONF_REG, 54, 217>>)>>

\* C2 witness: the driver was constructed with the example vector and wrote.
C2_Witness ==
    /\ call.op = "__init__"
    /\ call.args = ExampleVector
    /\ Len(call.bus) = 1

C4_IsOkIffMagnetValid ==
    call.op = "isOk" =>
        /\ call.bus = <<W(<<STATUS_REG>>), R(<<status>>)>>
        /\ call.ret = Bool(MagnetValid(status))

\* C4 witness: isOk returned true on a status byte with all five unrelated
\* bits set.
C4_Witness ==
    /\ call.op = "isOk"
    /\ status = 231
    /\ call.ret = Bool(TRUE)

\* C5: a getAngleDegrees() call whose status read decodes as not OK returns
\* None and issues no write to or read of the angle register; a number is
\* returned only when the status read decoded as OK.
C5_NotOkGivesNoneAndNoAngleAccess ==
    call.op = "getAngleDegrees" =>
        /\ ~MagnetValid(status) =>
              /\ call.ret = None
              /\ RegisterOps(call.bus, ANGLE_REG) = {}
        /\ call.ret.tag = "float" => MagnetValid(status)

\* C5 witness: getAngleDegrees returned None on a "too weak" status byte.
C5_Witness ==
    /\ call.op = "getAngleDegrees"
    /\ status = 48
    /\ call.ret = None
    /\ Len(call.bus) = 2

\* C6: construction issues exactly one bus operation, whatever the options:
\* a write to the device address of the configuration register selector
\* followed by the two configuration bytes; no read follows.
C6_ConstructionIsOneWrite ==
    call.op = "__init__" =>
        /\ Len(call.bus) = 1
        /\ call.bus[1].op = "w"
        /\ call.bus[1].addr = ADDRESS
        /\ call.bus[1].data = <<CONF_REG, DocC1(call.args), DocC2(call.args)>>

\* C6 witness: constructed with every option at its default.
C6_Witness ==
    /\ call.op = "__init__"
    /\ \A o \in OptionNames : call.args[o] = 0
    /\ call.bus = <<W(<<CONF_REG, 0, 0>>)>>

\* C7: with the angle register holding r in 0..4095 and a valid status,
\* getAngleDegrees() and getAngleDegreesFast(), called one after the other,
\* return the same number r/4096*360: 180.0 for 2048 and 0.0 for 0.
C7_SafeAndFastAgree ==
    ( /\ {call.op, prev.op} = {"getAngleDegrees", "getAngleDegreesFast"}
      /\ MagnetValid(status)
      /\ Raw \in 0..4095 ) =>
        /\ call.ret.tag = "float"
        /\ call.ret = prev.ret
        /\ call.ret.num * 4096 = Raw * 360 * call.ret.den
        /\ Raw = 2048 => call.ret = [tag |-> "float", num |-> 180, den |-> 1]
        /\ Raw = 0 => call.ret = [tag |-> "float", num |-> 0, den |-> 1]

\* C7 witness: getAngleDegreesFast right after getAngleDegrees at r = 2048.
C7_Witness ==
    /\ prev.op = "getAngleDegrees"
    /\ call.op = "getAngleDegreesFast"
    /\ MagnetValid(status)
    /\ Raw = 2048
    /\ prev.ret.num = 180

\* C8: getRawAngle() selects the angle register, reads two bytes and returns
\* exactly the 12-bit value held there, high byte * 256 + low byte.
C8_RawAngleRoundTrip ==
    (call.op = "getAngle" /\ Raw \in 0..4095) =>
        /\ call.bus = <<W(<<ANGLE_REG>>), R(<<angle.hi, angle.lo>>)>>
        /\ call.ret = IntVal(Raw)

\* C8 witness: the boundary value 4095 read back.
C8_Witness ==
    /\ call.op = "getAngle"
    /\ angle = [hi |-> 15, lo |-> 255]
    /\ call.ret.num = 4095

\* C9 as stated: whatever two bytes the angle register read returns, the raw
\* angle fits in 12 bits and every degree value lies in [0, 360).
C9_AlwaysTwelveBits ==
    /\ call.op = "getAngle" => call.ret.num \in 0..4095
    /\ (call.op \in {"getAngleDegrees", "getAngleDegreesFast"}
        /\ call.ret.tag = "float") =>
           (0 <= call.ret.num /\ call.ret.num < 360 * call.ret.den)

\* C9 amended: when the upper four bits of the high byte returned are zero,
\* the raw angle fits in 12 bits and every degree value lies in [0, 360).
C9_TwelveBitsWhenDeviceKeepsUpperBitsZero ==
    angle.hi <= 15 =>
        /\ call.op = "getAngle" => call.ret.num \in 0..4095
        /\ (call.op \in {"getAngleDegrees", "getAngleDegreesFast"}
            /\ call.ret.tag = "float") =>
               (0 <= call.ret.num /\ call.ret.num < 360 * call.ret.den)

\* C9 witness: the largest 12-bit value converted, 4095/4096*360 degrees.
C9_Witness ==
    /\ call.op = "getAngleDegrees"
    /\ Raw = 4095
    /\ call.ret = [tag |-> "float", num |-> 184275, den |-> 512]

\* C10 as stated: getAngleDegreesFast() performs exactly one transaction, on
\* the angle register, and a getAngleDegrees() call that returns a degree
\* value performs exactly three.
C10_OneVersusThree ==
    /\ call.op = "getAngleDegreesFast" =>
          /\ Transactions(call.bus) = 1
          /\ Len(call.bus) = 2
          /\ RegisterOps(call.bus, STATUS_REG) = {}
    /\ (call.op = "getAngleDegrees" /\ call.ret.tag = "float") =>
          Transactions(call.bus) = 3

\* C10 amended: getAngleDegreesFast() performs exactly one transaction, on
\* the angle register, and a getAngleDegrees() call that returns a degree
\* value performs exactly two: the status register, then the angle register.
C10_OneVersusTwo ==
    /\ call.op = "getAngleDegreesFast" =>
          /\ Transactions(call.bus) = 1
          /\ Len(call.bus) = 2
          /\ RegisterOps(call.bus, ANGLE_REG) = {1, 2}
          /\ RegisterOps(call.bus, STATUS_REG) = {}
    /\ (call.op = "getAngleDegrees" /\ call.ret.tag = "float") =>
          /\ Transactions(call.bus) = 2
          /\ Len(call.bus) = 4
          /\ RegisterOps(call.bus, STATUS_REG) = {1, 2}
          /\ RegisterOps(call.bus, ANGLE_REG) = {3, 4}

\* C10 witness: getAngleDegrees returned a degree value right after a
\* getAngleDegreesFast call.
C10_Witness ==
    /\ prev.op = "getAngleDegreesFast"
    /\ call.op = "getAngleDegrees"
    /\ call.ret.tag = "float"
    /\ Len(call.bus) = 4

===========================================================================
